---- MODULE Spec2Model ----
(***************************************************************************)
(* A model of the chat-completions client: retry (retry.ts), the stream    *)
(* consumer and transport (createCompletions.ts), the function registry    *)
(* (createUserFunction.ts) and the conversation (createChat.ts).           *)
(*                                                                         *)
(* Text is modelled as a sequence of tokens, so that string concatenation  *)
(* is sequence concatenation and "" is the empty sequence.  A JSON text is *)
(* a token sequence over "{", a property name and "}".                     *)
(***************************************************************************)
EXTENDS Integers, Sequences, FiniteSets, TLC

\* ------------------------------------------------------------------ bounds
MaxCalls == 2      \* sendMessage and addMessage calls in one run
MaxWireLines == 3  \* lines the transport delivers, all streams of a run together
MaxRequests == 3   \* requests issued (invocations of createCompletions) in one run
MaxTime == 12      \* units of time the clock runs

\* ------------------------------------------------------- values and markers
Undefined == <<"$undefined">>          \* a text that is undefined / absent
Null == <<"$null">>                    \* a text that is JSON null
UndefinedRole == "$undefined"          \* role key absent
NoFinish == "$undefined"               \* finishReason never set
NullFinish == "$null"                  \* finish_reason: null on the wire
Roles == {"system", "user", "assistant", "function"}

Max(a, b) == IF a >= b THEN a ELSE b

\* ------------------------------------------------------------------ errors
Err(msg) == [kind |-> "Error", msg |-> msg, choices |-> <<>>]
CancelledCompletionError(choices) ==
  [kind |-> "CancelledCompletionError", msg |-> "Completion was cancelled",
   choices |-> choices]
UnrecoverableRemoteError(payload) ==
  [kind |-> "UnrecoverableRemoteError", msg |-> payload, choices |-> <<>>]
NoError == [kind |-> "none", msg |-> "", choices |-> <<>>]

\* -------------------------------------------------------------------- JSON
PropertyNames == {"location", "temperature", "name"}

\* JSON.parse on the modelled grammar: "{}" and "{k}" are objects (the set
\* of their property names), "null" is null, anything else a SyntaxError.
JsonParse(text) ==
  IF text = <<"{", "}">> THEN [ok |-> TRUE, type |-> "object", keys |-> {}]
  ELSE IF Len(text) = 3 /\ text[1] = "{" /\ text[2] \in PropertyNames /\ text[3] = "}"
    THEN [ok |-> TRUE, type |-> "object", keys |-> {text[2]}]
  ELSE IF text = <<"null">> THEN [ok |-> TRUE, type |-> "null", keys |-> {}]
  ELSE [ok |-> FALSE, type |-> "SyntaxError", keys |-> {}]

\* JSON.stringify of an object with at most one property.
JsonStringify(value) ==
  IF value.type = "null" THEN <<"null">>
  ELSE IF value.keys = {} THEN <<"{", "}">>
  ELSE <<"{", CHOOSE k \in value.keys : TRUE, "}">>

\* jsonrepair: a text that parses is left alone, an object whose closing
\* brace is missing gets one, anything else is not repaired (throws).
JsonRepair(text) ==
  IF JsonParse(text).ok THEN text
  ELSE IF text = <<"{">> THEN <<"{", "}">>
  ELSE IF Len(text) = 2 /\ text[1] = "{" /\ text[2] \in PropertyNames
    THEN text \o <<"}">>
  ELSE Undefined

\* ajv validation against {type: object, required: [key]}
SchemaValid(value, required) ==
  value.type = "object" /\ required \subseteq value.keys

\* ------------------------------------------------------------ wire deltas
NoFunctionCall == <<>>
FunctionCall(name, arguments) == <<[name |-> name, arguments |-> arguments]>>
Delta(role, content, fc) == [role |-> role, content |-> content, function_call |-> fc]
EmptyDelta == Delta(UndefinedRole, Undefined, NoFunctionCall)

\* The delta union of ResponseChunkZodSchema: the first option that matches
\* wins and keys the option does not declare are stripped.
ParseDelta(d) ==
  IF /\ d.function_call # NoFunctionCall
     /\ d.function_call[1].arguments # Undefined
     /\ d.content \in {Null, Undefined}
    THEN d
  ELSE IF d.content \notin {Null, Undefined}
    THEN Delta(UndefinedRole, d.content, NoFunctionCall)
  ELSE IF d.role # UndefinedRole
    THEN Delta(d.role, Undefined, NoFunctionCall)
  ELSE EmptyDelta

\* --------------------------------------------------------------- choices
NewChoice ==
  [role |-> UndefinedRole, content |-> Undefined, finishReason |-> NoFinish,
   function_call |-> NoFunctionCall]
\* an empty slot of the sparse choices array
Hole == [NewChoice EXCEPT !.role = "$hole"]

\* consumeStream, the body of `for (const choiceChunk of responseChunk.choices)`
FoldDelta(choice, choiceChunk) ==
  LET d == choiceChunk.delta
      c1 == IF choiceChunk.finish_reason # NullFinish
              THEN [choice EXCEPT !.finishReason = choiceChunk.finish_reason]
              ELSE choice
      c2 == IF d.role # UndefinedRole THEN [c1 EXCEPT !.role = d.role] ELSE c1
      c3 == IF d.content # Undefined
              THEN [c2 EXCEPT !.content =
                      (IF @ = Undefined THEN <<>> ELSE @)
                        \o (IF d.content = Null THEN <<"null">> ELSE d.content)]
              ELSE c2
      c4 == IF d.function_call # NoFunctionCall
              THEN LET old == IF c3.function_call = NoFunctionCall
                                THEN [name |-> <<>>, arguments |-> <<>>]
                                ELSE c3.function_call[1]
                       fc == d.function_call[1]
                   IN [c3 EXCEPT !.function_call =
                         FunctionCall(
                           old.name \o (IF fc.name = Undefined THEN <<>> ELSE fc.name),
                           old.arguments \o fc.arguments)]
              ELSE c3
  IN c4

\* choices[index] = choices[index] ?? {} followed by the fold
FoldInto(choices, choiceChunk) ==
  LET i == choiceChunk.index + 1
      ext == [k \in 1..Max(Len(choices), i) |->
                IF k <= Len(choices) THEN choices[k] ELSE Hole]
      cur == IF ext[i] = Hole THEN NewChoice ELSE ext[i]
  IN [ext EXCEPT ![i] =
        FoldDelta(cur, [choiceChunk EXCEPT !.delta = ParseDelta(choiceChunk.delta)])]

RECURSIVE FoldFrame(_, _)
FoldFrame(choices, choiceChunks) ==
  IF choiceChunks = <<>> THEN choices
  ELSE FoldFrame(FoldInto(choices, Head(choiceChunks)), Tail(choiceChunks))

\* ChoiceZodSchema (strict)
ValidChoice(c) ==
  /\ c.role \in Roles
  /\ c.content \notin {Undefined, Null}
  /\ c.finishReason \notin {NoFinish, NullFinish}
  /\ c.function_call # NoFunctionCall =>
       /\ c.function_call[1].name \notin {Undefined, Null}
       /\ c.function_call[1].arguments \notin {Undefined, Null}

\* a createCompletions that returns the choices without validating them
FinalizeUnchecked(choices) ==
  [ok |-> TRUE, error |-> NoError,
   choices |-> [k \in 1..Len(choices) |->
                  IF choices[k].role = UndefinedRole
                    THEN [choices[k] EXCEPT !.role = "assistant"]
                    ELSE choices[k]]]

\* createCompletions, after the body was consumed: default the role, then
\* ChoiceZodSchema.array().parse(choices)
Finalize(choices) ==
  IF \E k \in 1..Len(choices) : choices[k] = Hole
    THEN [ok |-> FALSE, error |-> Err("TypeError: undefined choice"), choices |-> <<>>]
  ELSE LET defaulted == [k \in 1..Len(choices) |->
                           IF choices[k].role = UndefinedRole
                             THEN [choices[k] EXCEPT !.role = "assistant"]
                             ELSE choices[k]]
       IN IF \A k \in 1..Len(defaulted) : ValidChoice(defaulted[k])
            THEN [ok |-> TRUE, error |-> NoError, choices |-> defaulted]
            ELSE [ok |-> FALSE, error |-> Err("ZodError: invalid choice"), choices |-> <<>>]

\* parseResponse of createCompletions: the buffered body's choices
ParseResponse(body) ==
  [k \in 1..Len(body) |->
     [role |-> body[k].message.role,
      content |-> IF body[k].message.content \in {Null, Undefined}
                    THEN <<>> ELSE body[k].message.content,
      finishReason |-> body[k].finish_reason,
      function_call |-> body[k].message.function_call]]

\* ---------------------------------------------------------------- messages
Message(role, content, name, fc) ==
  [role |-> role, content |-> content, name |-> name, function_call |-> fc]

\* omit(choice, "finishReason")
omit(choice) == Message(choice.role, choice.content, Undefined, choice.function_call)

\* MessageZodSchema (strict)
ValidMessage(m) ==
  /\ m.role \in Roles
  /\ m.content \notin {Undefined, Null}
  /\ m.name # Null
  /\ m.function_call # NoFunctionCall =>
       /\ m.function_call[1].name \notin {Undefined, Null}
       /\ m.function_call[1].arguments \notin {Undefined, Null}

\* ------------------------------------------------------ function registry
\* createChat: userFunctions, the registered functions "f" and "h" whose
\* parameters schemas require the property "location"
Registered == {<<"f">>, <<"h">>}
RequiredOf(name) == {"location"}

\* what the registered callable does when invoked: it returns a JSON value,
\* returns undefined, or throws
FunctionBehaviours == {"returns", "returnsUndefined", "throws"}
FunctionResult == [ok |-> TRUE, type |-> "object", keys |-> {"temperature"}]

\* ----------------------------------------------------------- structured output
ExpectRequired == {"name"}
\* extendPrompt: the prompt followed by the rendered schema and examples
extendPrompt(prompt) ==
  prompt \o <<"Respond ONLY with a JSON object that satisfies the following schema:",
              "{", "name", "}", "Examples:", "{", "name", "}">>

\* ------------------------------------------------------------------ retry
retries == 3

\* ---------------------------------------------------------------- the wire
Line(kind, choiceChunks) == [kind |-> kind, choices |-> choiceChunks]
ChoiceChunk(index, finish, delta) ==
  [index |-> index, finish_reason |-> finish, delta |-> delta]

TextFrame ==
  Line("frame", <<ChoiceChunk(0, NullFinish, Delta(UndefinedRole, <<"a">>, NoFunctionCall))>>)
StopFrame == Line("frame", <<ChoiceChunk(0, "stop", EmptyDelta)>>)
FunctionFrame ==
  Line("frame", <<ChoiceChunk(0, "function_call",
     Delta("assistant", Null, FunctionCall(<<"f">>, <<"{", "location", "}">>)))>>)
TwoChoicesFrame ==
  Line("frame", <<ChoiceChunk(0, "stop", Delta(UndefinedRole, <<"a">>, NoFunctionCall)),
                  ChoiceChunk(1, "stop", Delta(UndefinedRole, <<"a">>, NoFunctionCall))>>)
DoneLine == Line("done", <<>>)          \* data: [DONE]
GarbageLine == Line("garbage", <<>>)    \* a line without the "data: " prefix
BadFrameLine == Line("bad", <<>>)       \* data: <text that fails JSON.parse or the schema>
BlankLine == Line("blank", <<>>)        \* an empty line, or one of white space
\* a frame whose text is cut in two by the end of a fragment: the head begins
\* with "data: " and is not a complete JSON text, the tail is the rest
SplitHead(frame) == Line("head", frame.choices)
SplitTail(frame) == Line("tail", frame.choices)

\* the lines the remote side may send in a stream
WireLines ==
  {TextFrame, StopFrame, FunctionFrame, TwoChoicesFrame, DoneLine, GarbageLine}

\* the bodies the remote side may send to a buffered request
BufferedChoice(content, finish, fc) ==
  [message |-> [role |-> "assistant", content |-> content, function_call |-> fc],
   finish_reason |-> finish]
BufferedBodies ==
  { <<>>,
    <<BufferedChoice(<<"a">>, "stop", NoFunctionCall)>>,
    <<BufferedChoice(Null, "function_call", FunctionCall(<<"f">>, <<"{", "location", "}">>))>>,
    <<BufferedChoice(Null, "function_call", FunctionCall(<<"g">>, <<"{", "}">>))>>,
    <<BufferedChoice(Null, "function_call", FunctionCall(<<"h">>, <<"{", "location", "}">>))>>,
    <<BufferedChoice(<<"a">>, "stop", NoFunctionCall),
      BufferedChoice(<<"b">>, "stop", NoFunctionCall)>> }

Prompts == {<<"ping">>}
\* functionCall: "auto", or {name} to force a function
Auto == [mode |-> "auto", name |-> Undefined]
Forced(name) == [mode |-> "name", name |-> name]
\* messageOptions: onUpdate given or not, expect given or not, functionCall
MessageOptions ==
  [stream : BOOLEAN, expect : BOOLEAN, functionCall : {Auto}]
    \cup {[stream |-> FALSE, expect |-> FALSE, functionCall |-> Forced(<<"f">>)]}
NoOptions == [stream |-> FALSE, expect |-> FALSE, functionCall |-> Auto]
\* onUpdate is a mock.fn, which records what it is invoked with
Recording(o) == "mock" \in DOMAIN o

\* createChat(options): the conversation-level options
ChatOptions == [model |-> <<"gpt-3.5-turbo">>, functionCall |-> Auto]
\* messageOptions that give some of model, functionCall and maxTokens, or none
OverrideOptions ==
  { [stream |-> FALSE, expect |-> FALSE],
    [stream |-> FALSE, expect |-> FALSE, maxTokens |-> <<"1">>],
    [stream |-> FALSE, expect |-> FALSE, model |-> <<"gpt-4">>],
    [stream |-> FALSE, expect |-> FALSE, functionCall |-> Forced(<<"f">>),
     model |-> <<"gpt-4">>] }

\* a spread in which the conversation-level options come last
SpreadDefaultsLast(a, b) ==
  [k \in DOMAIN a \cup DOMAIN b |-> IF k \in DOMAIN a THEN a[k] ELSE b[k]]

\* {...a, ...b}: the keys of both, a key of b with b's value
Spread(a, b) ==
  [k \in DOMAIN a \cup DOMAIN b |-> IF k \in DOMAIN b THEN b[k] ELSE a[k]]

\* the value of an option, undefined when the key is absent
OptionOf(o, key) == IF key \in DOMAIN o THEN o[key] ELSE Undefined
SeedMessages == {Message("assistant", <<"2134">>, Undefined, NoFunctionCall)}
\* the messages of an earlier conversation, given to addMessage to resume it
ResumedMessages ==
  {Message("user", <<"hi">>, Undefined, NoFunctionCall),
   Message("assistant", <<"2134">>, Undefined, NoFunctionCall)}

\* JSON.stringify of one message as the remote side decodes it: a key whose
\* value is undefined is not sent
WireMessage(m) ==
  IF m.name = Undefined /\ m.function_call = NoFunctionCall
    THEN [role |-> m.role, content |-> m.content]
  ELSE IF m.function_call = NoFunctionCall
    THEN [role |-> m.role, content |-> m.content, name |-> m.name]
  ELSE IF m.name = Undefined
    THEN [role |-> m.role, content |-> m.content,
          function_call |-> m.function_call[1]]
  ELSE [role |-> m.role, content |-> m.content, name |-> m.name,
        function_call |-> m.function_call[1]]

\* a request that carries only the newest message
RequestBodyNewest(log, o) ==
  [messages |-> [k \in 1..1 |-> WireMessage(log[Len(log)])],
   model |-> OptionOf(o, "model"),
   max_tokens |-> OptionOf(o, "maxTokens"),
   function_call |-> OptionOf(o, "functionCall")]

\* the body of the request: the log and the options model, maxTokens and
\* functionCall
RequestBody(log, o) ==
  [messages |-> [k \in 1..Len(log) |-> WireMessage(log[k])],
   model |-> OptionOf(o, "model"),
   max_tokens |-> OptionOf(o, "maxTokens"),
   function_call |-> OptionOf(o, "functionCall")]
NoRequest ==
  [messages |-> <<>>, model |-> Undefined, max_tokens |-> Undefined,
   function_call |-> Undefined]

\* statuses of a client error other than 400
ClientErrorStatuses == {401, 429}

\* options.unresponsiveApiTimeout, in units of time
Timeout == 2

\* ------------------------------------------------------------------- state
VARIABLES
  messages,         \* createChat: const messages: Message[]
  options,          \* createChat: the options parameter
  pc,               \* where the sendMessage in flight is suspended
  opts,             \* sendMessage: messageOptions
  phase,            \* 1: the first complete(), 2: the follow-up complete()
  choice,           \* sendMessage: let choice
  attempts,         \* retry: let attempts
  invoked,          \* history: invocations of routine by the current retry call
  lastError,        \* history: what the last failed invocation of routine threw
  nReturned,        \* history: how many choices createCompletions returned to the
                    \* current retry call, -1 while it has not returned
  choices,          \* consumeStream: const choices: Choice[]
  cancelled,        \* consumeStream: let cancelled
  readerCancelled,  \* reader.cancel() was called on the stream's reader
  seenAtCancel,     \* history: indices that had a content delta when cancel was first invoked
  wireRoles,        \* history: <<index, role>> for every role a frame of the stream carried
  updates,          \* history: the frames a recording onUpdate was invoked with by the stream
  wireLines,        \* history: lines delivered so far by the transport
  requests,         \* history: requests issued so far
  fnCalls,          \* history: invocations of the callable by the current sendMessage
  completions,      \* history: complete() calls of the current sendMessage
  outcome,          \* how the last sendMessage settled
  history,          \* history: how each finished call of the public surface ended
  sent,             \* history: the body of the last request the current sendMessage issued
  status,           \* history: status of the response to the last request, 0 if none
  logBefore,        \* history: the log when the current sendMessage was called
  added,            \* history: the messages given to addMessage, in call order
  returned,         \* what the last getMessages() returned to its caller
  now,              \* the clock, in units of time
  tpc,              \* where the createCompletions with unresponsiveApiTimeout is
  timeoutId,        \* its timer: the time at which it is due, NoTimer if none is armed
  aborted,          \* abortController.abort() was called
  lastArrival,      \* history: when the request started or its last read completed
  turns,            \* concurrent callers: where each caller's sendMessage is
  owners            \* history: the caller whose sendMessage pushed each log entry

vars == <<messages, options, pc, opts, phase, choice, attempts, invoked, lastError, nReturned, choices,
          cancelled, readerCancelled, seenAtCancel, wireRoles, updates, wireLines, requests,
          fnCalls, completions, outcome, history, sent, status, logBefore, added,
          returned, now, tpc, timeoutId, aborted, lastArrival, turns, owners>>

\* one conversation driven call after call
chatVars == <<options, pc, opts, phase, choice, attempts, invoked, lastError, nReturned, choices,
              cancelled, readerCancelled, seenAtCancel, wireRoles, updates, wireLines, requests,
              fnCalls, completions, outcome, history, sent, status, logBefore, added,
              returned>>
\* one createCompletions with unresponsiveApiTimeout
timerVars == <<now, tpc, timeoutId, aborted, lastArrival>>
\* sendMessage calls issued without awaiting one another
turnVars == <<turns, owners>>
\* what no step of sendMessage, addMessage or getMessages assigns
elsewhere == <<timerVars, turnVars, options>>

streamVars == <<choices, cancelled, readerCancelled, seenAtCancel, wireRoles, updates>>

NoValue == [ok |-> FALSE, type |-> "none", keys |-> {}]
Pending == [kind |-> "pending", error |-> NoError, choice |-> NewChoice, parsed |-> NoValue]
Rejected(e) == [kind |-> "rejected", error |-> e, choice |-> NewChoice, parsed |-> NoValue]
Resolved(c, v) == [kind |-> "resolved", error |-> NoError, choice |-> c, parsed |-> v]

\* no timer armed: timeoutId undefined, or cleared
NoTimer == -1

\* the callers of sendMessage on one conversation
Callers == {1, 2, 3}
NotCalled == [at |-> "idle", attempts |-> 0]

\* getMessages: () => messages returns the log array itself; at is the log
\* as it was when the call returned
NotReturned == [ref |-> "none", at |-> <<>>]
\* the value the caller reads through what getMessages returned
ValueOf(r) == IF r.ref = "messages" THEN messages ELSE <<>>

Init ==
  /\ messages = <<>>
  /\ options = ChatOptions
  /\ pc = "idle"
  /\ opts = NoOptions
  /\ phase = 1
  /\ choice = NewChoice
  /\ attempts = 0
  /\ invoked = 0
  /\ lastError = NoError
  /\ nReturned = -1
  /\ choices = <<>>
  /\ cancelled = FALSE
  /\ readerCancelled = FALSE
  /\ seenAtCancel = {}
  /\ wireRoles = {}
  /\ updates = <<>>
  /\ wireLines = 0
  /\ requests = 0
  /\ fnCalls = <<>>
  /\ completions = 0
  /\ outcome = Pending
  /\ history = <<>>
  /\ sent = NoRequest
  /\ status = 0
  /\ logBefore = <<>>
  /\ added = <<>>
  /\ returned = NotReturned
  /\ now = 0
  /\ tpc = "start"
  /\ timeoutId = NoTimer
  /\ aborted = FALSE
  /\ lastArrival = 0
  /\ turns = [p \in Callers |-> NotCalled]
  /\ owners = <<>>

\* --------------------------------------------------- how a sendMessage ends
\* sendMessage rejects with e
Reject(e) ==
  /\ pc' = "idle"
  /\ outcome' = Rejected(e)
  /\ history' = Append(history, "rejected")

\* createChat parseResponse: JSON.parse(choice.content), then the schema
\* sendMessage's last statement: return the choice, or parseResponse(choice, expect)
Resolve(c) ==
  LET parsed == JsonParse(c.content)
      turn == IF phase = 2 THEN "function" ELSE "plain"
  IN IF ~opts.expect
       THEN /\ pc' = "idle"
            /\ outcome' = Resolved(c, NoValue)
            /\ history' = Append(history, turn)
     ELSE IF ~parsed.ok
       THEN Reject(Err("SyntaxError: JSON.parse"))
     ELSE IF ~SchemaValid(parsed, ExpectRequired)
       THEN Reject(Err("Invalid response"))
     ELSE /\ pc' = "idle"
          /\ outcome' = Resolved(c, parsed)
          /\ history' = Append(history, turn)

\* a retry that hands every error to its caller at once
CatchRethrow(e) ==
  /\ lastError' = e
  /\ Reject(e)

\* a retry that wraps the function round-trip too: a failed follow-up
\* completion starts over from the function call
CatchRedispatch(e) ==
  /\ lastError' = e
  /\ IF e.kind = "CancelledCompletionError"
       THEN Reject(e)
       ELSE /\ pc' = (IF phase = 2 THEN "dispatch" ELSE "retry")
            /\ UNCHANGED <<outcome, history>>

\* retry: the catch block, entered with what routine() threw
Catch(e) ==
  /\ lastError' = e
  /\ IF e.kind = "CancelledCompletionError" \/ retries = 0
       THEN Reject(e)
       ELSE /\ pc' = "retry"          \* console.warn, delay(1000), next iteration
            /\ UNCHANGED <<outcome, history>>

\* createCompletions throws e into retry
Throw(e) ==
  /\ Catch(e)
  /\ UNCHANGED <<messages, choice, nReturned>>

\* a sendMessage that logs the assistant entry of a function call only
\* when no function is to be called
AfterFirstCompletionUnlogged(c) ==
  /\ choice' = c
  /\ IF c.function_call # NoFunctionCall
       THEN /\ pc' = "dispatch"
            /\ UNCHANGED <<messages, outcome, history>>
       ELSE /\ messages' = Append(messages, omit(c))
            /\ Resolve(c)

\* sendMessage after the first complete() returned c
AfterFirstCompletion(c) ==
  /\ choice' = c
  /\ messages' = Append(messages, omit(c))
  /\ IF c.function_call # NoFunctionCall
       THEN /\ pc' = "dispatch"
            /\ UNCHANGED <<outcome, history>>
       ELSE Resolve(c)

\* a sendMessage that treats the follow-up choice like the first one
AfterFollowUpChained(c) == AfterFirstCompletion(c)

\* sendMessage after the follow-up complete() returned c
AfterFollowUpCompletion(c) ==
  /\ choice' = c
  /\ UNCHANGED messages
  /\ Resolve(c)

\* a complete() that takes the first choice of several
ReturnFirstChoice(chs) ==
  /\ nReturned' = Len(chs)
  /\ UNCHANGED lastError
  /\ IF Len(chs) = 0
       THEN Reject(Err("No choices returned")) /\ UNCHANGED <<messages, choice>>
     ELSE IF phase = 1
       THEN AfterFirstCompletion(chs[1])
     ELSE AfterFollowUpCompletion(chs[1])

\* createCompletions returns {choices: chs}: retry returns it, complete checks
\* the number of choices and sendMessage goes on with the one choice
Return(chs) ==
  /\ nReturned' = Len(chs)
  /\ UNCHANGED lastError
  /\ IF Len(chs) = 0
       THEN Reject(Err("No choices returned")) /\ UNCHANGED <<messages, choice>>
     ELSE IF Len(chs) > 1
       THEN Reject(Err("Expected only one choice")) /\ UNCHANGED <<messages, choice>>
     ELSE IF phase = 1
       THEN AfterFirstCompletion(chs[1])
     ELSE AfterFollowUpCompletion(chs[1])

\* createCompletions, from the consumed body to its return or throw
Finish(chs) ==
  IF Finalize(chs).ok THEN Return(Finalize(chs).choices)
  ELSE Throw(Finalize(chs).error)

\* --------------------------------------------------------- public surface
\* retry: let retries = 3; let attempts = 0
StartRetry ==
  /\ pc' = "retry"
  /\ attempts' = 0
  /\ invoked' = 0
  /\ lastError' = NoError
  /\ nReturned' = -1

\* a consumeStream whose choices array outlives the call
StaleStream ==
  /\ choices' = choices
  /\ cancelled' = FALSE
  /\ readerCancelled' = FALSE
  /\ seenAtCancel' = {}
  /\ wireRoles' = {}
  /\ updates' = <<>>

\* consumeStream is entered: the reader, choices = [], cancelled = false
FreshStream ==
  /\ choices' = <<>>
  /\ cancelled' = FALSE
  /\ readerCancelled' = FALSE
  /\ seenAtCancel' = {}
  /\ wireRoles' = {}
  /\ updates' = <<>>

\* sendMessage, up to the first await of complete()
SendMessage(prompt, o) ==
  /\ pc = "idle"
  /\ Len(history) < MaxCalls
  /\ messages' = Append(messages,
       Message("user", IF o.expect THEN extendPrompt(prompt) ELSE prompt,
               Undefined, NoFunctionCall))
  /\ opts' = o
  /\ phase' = 1
  /\ choice' = NewChoice
  /\ fnCalls' = <<>>
  /\ completions' = 1
  /\ outcome' = Pending
  /\ StartRetry
  /\ FreshStream
  /\ logBefore' = messages
  /\ status' = 0
  /\ sent' = NoRequest
  /\ UNCHANGED <<elsewhere, wireLines, requests, history, added, returned>>

\* an addMessage that puts the message in front of the log
addMessageFront(m) ==
  /\ pc = "idle"
  /\ Len(history) < MaxCalls
  /\ messages' = <<m>> \o messages
  /\ history' = Append(history, "added")
  /\ added' = Append(added, m)
  /\ logBefore' = <<>>
  /\ status' = 0
  /\ opts' = NoOptions
  /\ phase' = 1
  /\ choice' = NewChoice
  /\ fnCalls' = <<>>
  /\ completions' = 0
  /\ outcome' = Pending
  /\ attempts' = 0
  /\ invoked' = 0
  /\ lastError' = NoError
  /\ nReturned' = -1
  /\ FreshStream
  /\ sent' = NoRequest
  /\ UNCHANGED <<elsewhere, pc, wireLines, requests, returned>>

\* addMessage; what is still recorded of the sendMessage that ended before it
\* (its locals and how it settled) is dropped
addMessage(m) ==
  /\ pc = "idle"
  /\ Len(history) < MaxCalls
  /\ messages' = Append(messages, m)
  /\ history' = Append(history, "added")
  /\ added' = Append(added, m)
  /\ logBefore' = <<>>
  /\ status' = 0
  /\ opts' = NoOptions
  /\ phase' = 1
  /\ choice' = NewChoice
  /\ fnCalls' = <<>>
  /\ completions' = 0
  /\ outcome' = Pending
  /\ attempts' = 0
  /\ invoked' = 0
  /\ lastError' = NoError
  /\ nReturned' = -1
  /\ FreshStream
  /\ sent' = NoRequest
  /\ UNCHANGED <<elsewhere, pc, wireLines, requests, returned>>

\* ------------------------------------------------------------------- retry
\* CompletionsOptionsZodSchema.parse(options): a strict object, so the key
\* `expect` spread in from messageOptions is not recognised
ValidOptions ==
  /\ ~opts.expect
  /\ \A k \in 1..Len(messages) : ValidMessage(messages[k])

\* retry: `attempts++ < retries` holds and routine() is invoked;
\* createCompletions runs up to its await of fetch
RetryInvoke ==
  /\ pc = "retry"
  /\ attempts < retries
  /\ requests < MaxRequests
  /\ attempts' = attempts + 1
  /\ invoked' = invoked + 1
  /\ FreshStream
  /\ IF ValidOptions
       THEN /\ pc' = "fetch"
            /\ sent' = RequestBody(messages, Spread(options, opts))
            /\ UNCHANGED <<lastError, nReturned, outcome, history, messages, choice>>
       ELSE Throw(Err("ZodError: invalid options")) /\ UNCHANGED sent
  /\ requests' = requests + 1
  /\ status' = 0
  /\ UNCHANGED <<elsewhere, opts, phase, wireLines, fnCalls, completions, logBefore, added, returned>>

\* retry: `attempts++ < retries` fails, the loop is left
RetryExhausted ==
  /\ pc = "retry"
  /\ ~(attempts < retries)
  /\ attempts' = attempts + 1
  /\ Reject(Err("Expected to never reach this point"))
  /\ UNCHANGED <<elsewhere, messages, opts, phase, choice, invoked, lastError, nReturned,
                 streamVars, wireLines, requests, fnCalls, completions,
                 sent, status, logBefore, added, returned>>

\* ------------------------------------------------------- createCompletions
\* fetch rejects, or answers without a body, or with status 400
FetchErrors ==
  {Err("fetch failed"), Err("Expected response to have a body"),
   UnrecoverableRemoteError("context_length_exceeded")}

FetchFails(e) ==
  /\ pc = "fetch"
  /\ Throw(e)
  /\ status' = (IF e.kind = "UnrecoverableRemoteError" THEN 400 ELSE 0)
  /\ UNCHANGED <<elsewhere, opts, phase, attempts, invoked, streamVars, wireLines, requests, fnCalls,
                 completions, sent, logBefore, added, returned>>

\* the remote side answers with a client-error status other than 400 and the
\* error document as its body: the status test is passed over; without
\* onUpdate parseResponse maps over the missing `choices` of the document,
\* with onUpdate the first fragment read starts with "{"
FetchErrorStatus(code) ==
  /\ pc = "fetch"
  /\ status' = code
  /\ IF opts.stream
       THEN /\ readerCancelled' = TRUE
            /\ Throw(UnrecoverableRemoteError("error object"))
            /\ UNCHANGED <<choices, cancelled, seenAtCancel, wireRoles, updates>>
       ELSE /\ Throw(Err("TypeError: response.choices is undefined"))
            /\ UNCHANGED streamVars
  /\ UNCHANGED <<elsewhere, opts, phase, attempts, invoked, wireLines, requests, fnCalls,
                 completions, sent, logBefore, added, returned>>

\* no onUpdate: parseResponse(await response.json())
FetchBuffered(body) ==
  /\ pc = "fetch"
  /\ ~opts.stream
  /\ Finish(ParseResponse(body))
  /\ status' = 200
  /\ UNCHANGED <<elsewhere, opts, phase, attempts, invoked, streamVars, wireLines, requests, fnCalls,
                 completions, sent, logBefore, added, returned>>

\* onUpdate given: consumeStream is entered and awaits its first read
FetchStream ==
  /\ pc = "fetch"
  /\ opts.stream
  /\ pc' = "read"
  /\ status' = 200
  /\ UNCHANGED <<elsewhere, messages, opts, phase, choice, attempts, invoked, lastError,
                 nReturned, streamVars, wireLines, requests, fnCalls, completions,
                 outcome, history, sent, logBefore, added, returned>>

\* ------------------------------------------------------------ consumeStream
ErrorObjectLine == Line("errorObject", <<>>)   \* a fragment that starts with "{"

\* indices whose choice has had a content delta, the frame in hand included
ContentSeen(chs, line) ==
  {i \in 0..(Len(chs) - 1) : chs[i + 1].content # Undefined}
    \cup {line.choices[k].index : k \in {j \in 1..Len(line.choices) :
            ParseDelta(line.choices[j].delta).content # Undefined}}

\* one iteration of `for (const chunk of value.split("\n")...)`; cancel tells
\* whether the onUpdate callback calls cancel() when invoked with this frame
ProcessChunk(line, cancel) ==
  IF line.kind = "done"
    THEN /\ readerCancelled' = TRUE
         /\ pc' = "read"
         /\ UNCHANGED <<choices, cancelled, seenAtCancel, wireRoles, updates, lastError,
                        nReturned, outcome, history, messages, choice>>
  ELSE IF line.kind \in {"garbage", "errorObject", "tail"}
    THEN /\ Throw(Err("Unexpected message"))
         /\ UNCHANGED streamVars
  ELSE IF line.kind \in {"bad", "head"}
    THEN /\ readerCancelled' = TRUE
         /\ Throw(Err("SyntaxError: could not parse chunk"))
         /\ UNCHANGED <<choices, cancelled, seenAtCancel, wireRoles, updates>>
  ELSE /\ cancelled' = (cancelled \/ cancel)
       /\ readerCancelled' = (readerCancelled \/ cancel)
       /\ seenAtCancel' = IF cancel /\ ~cancelled
                            THEN ContentSeen(choices, line) ELSE seenAtCancel
       /\ updates' = (IF Recording(opts) THEN Append(updates, line) ELSE updates)
       /\ wireRoles' = wireRoles \cup
            {<<line.choices[k].index, line.choices[k].delta.role>> :
               k \in {j \in 1..Len(line.choices) :
                        line.choices[j].delta.role # UndefinedRole}}
       /\ choices' = FoldFrame(choices, line.choices)
       /\ pc' = "lines"
       /\ UNCHANGED <<lastError, nReturned, outcome, history, messages, choice>>

\* a consumer that does not drop the blank lines of a fragment: a blank line
\* is a line without the "data: " marker
ProcessUnfiltered(line, cancel) ==
  ProcessChunk(IF line.kind = "blank" THEN GarbageLine ELSE line, cancel)

\* the next line of value.split("\n").map(trim).filter(Boolean): a blank line
\* is dropped before the loop, any other line is an iteration of it
ProcessLine(line, cancel) ==
  IF line.kind = "blank"
    THEN /\ pc' = "lines"
         /\ UNCHANGED <<streamVars, lastError, nReturned, outcome, history,
                        messages, choice>>
    ELSE ProcessChunk(line, cancel)

\* a consumer that does not test the first character of a fragment
ReadFragmentUnchecked(line, cancel) ==
  /\ pc = "read"
  /\ ~readerCancelled
  /\ wireLines < MaxWireLines
  /\ wireLines' = wireLines + 1
  /\ ProcessLine(line, cancel)
  /\ UNCHANGED <<elsewhere, opts, phase, attempts, invoked, requests, fnCalls, completions,
                 sent, status, logBefore, added, returned>>

\* reader.read() resolves with a fragment; its first line is handled
ReadFragment(line, cancel) ==
  /\ pc = "read"
  /\ ~readerCancelled
  /\ wireLines < MaxWireLines
  /\ wireLines' = wireLines + 1
  /\ IF line.kind = "errorObject"
       THEN /\ readerCancelled' = TRUE
            /\ Throw(UnrecoverableRemoteError("error object"))
            /\ UNCHANGED <<choices, cancelled, seenAtCancel, wireRoles, updates>>
       ELSE ProcessLine(line, cancel)
  /\ UNCHANGED <<elsewhere, opts, phase, attempts, invoked, requests, fnCalls, completions,
                 sent, status, logBefore, added, returned>>

\* the next line of the fragment in hand
NextLine(line, cancel) ==
  /\ pc = "lines"
  /\ wireLines < MaxWireLines
  /\ wireLines' = wireLines + 1
  /\ ProcessLine(line, cancel)
  /\ UNCHANGED <<elsewhere, opts, phase, attempts, invoked, requests, fnCalls, completions,
                 sent, status, logBefore, added, returned>>

\* a consumer that aggregates each fragment on its own
EndFragmentResets ==
  /\ pc = "lines"
  /\ pc' = "read"
  /\ choices' = <<>>
  /\ UNCHANGED <<elsewhere, messages, opts, phase, choice, attempts, invoked, lastError,
                 nReturned, cancelled, readerCancelled, seenAtCancel, wireRoles, updates,
                 wireLines, requests, fnCalls, completions,
                 outcome, history, sent, status, logBefore, added, returned>>

\* the fragment in hand has no more lines: the next reader.read() is awaited
EndFragment ==
  /\ pc = "lines"
  /\ pc' = "read"
  /\ UNCHANGED <<elsewhere, messages, opts, phase, choice, attempts, invoked, lastError,
                 nReturned, streamVars, wireLines, requests, fnCalls, completions,
                 outcome, history, sent, status, logBefore, added, returned>>

\* reader.read() resolves with done (the transport closed, or the reader was
\* cancelled): the loop is left
ReadDone ==
  /\ pc = "read"
  /\ IF cancelled
       THEN Throw(CancelledCompletionError(choices))
       ELSE Finish(choices)
  /\ UNCHANGED <<elsewhere, opts, phase, attempts, invoked, streamVars, wireLines, requests, fnCalls,
                 completions, sent, status, logBefore, added, returned>>

\* reader.read() rejects: the connection broke
ReadFails ==
  /\ pc = "read"
  /\ ~readerCancelled
  /\ Throw(Err("terminated"))
  /\ UNCHANGED <<elsewhere, opts, phase, attempts, invoked, streamVars, wireLines, requests, fnCalls,
                 completions, sent, status, logBefore, added, returned>>

\* ---------------------------------------------------------- function call
\* userFunction.parseArguments: JSON.parse(jsonrepair(args)), then ajv
ParseArguments(name, args) ==
  IF JsonRepair(args) = Undefined
    THEN [ok |-> FALSE, error |-> Err("JSONRepairError"), value |-> NoValue]
  ELSE IF ~SchemaValid(JsonParse(JsonRepair(args)), RequiredOf(name))
    THEN [ok |-> FALSE, error |-> Err("Invalid arguments"), value |-> NoValue]
  ELSE [ok |-> TRUE, error |-> NoError, value |-> JsonParse(JsonRepair(args))]

\* JSON.stringify(result) of what the callable returned
ResultContent(behaviour) ==
  IF behaviour = "returns" THEN JsonStringify(FunctionResult) ELSE Undefined

\* a sendMessage that logs a function message for a callable that threw
CallFunctionLogsThrow(behaviour) ==
  LET name == choice.function_call[1].name
      args == choice.function_call[1].arguments
      parsed == ParseArguments(name, args)
  IN /\ pc = "dispatch"
     /\ IF name \notin Registered
          THEN /\ Reject(Err("Function not found in user functions"))
               /\ UNCHANGED <<messages, phase, attempts, invoked, lastError,
                              nReturned, fnCalls, completions>>
        ELSE IF ~parsed.ok
          THEN /\ Reject(parsed.error)
               /\ UNCHANGED <<messages, phase, attempts, invoked, lastError,
                              nReturned, fnCalls, completions>>
        ELSE /\ fnCalls' = Append(fnCalls, [name |-> name, args |-> parsed.value])
             /\ IF behaviour = "throws"
                  THEN /\ Reject(Err("thrown by the callable"))
                       /\ messages' = Append(messages,
                            Message("function", <<"null">>, name, NoFunctionCall))
                       /\ UNCHANGED <<phase, attempts, invoked, lastError,
                                      nReturned, completions>>
                  ELSE /\ messages' = Append(messages,
                            Message("function", ResultContent(behaviour), name,
                                    NoFunctionCall))
                       /\ phase' = 2
                       /\ completions' = completions + 1
                       /\ StartRetry
                       /\ UNCHANGED <<outcome, history>>
     /\ UNCHANGED <<elsewhere, opts, choice, streamVars, wireLines, requests,
                    sent, status, logBefore, added, returned>>

\* a callFunction that invokes the callable before the arguments are
\* validated
CallFunctionUnvalidated(behaviour) ==
  LET name == choice.function_call[1].name
      args == choice.function_call[1].arguments
      parsed == ParseArguments(name, args)
  IN /\ pc = "dispatch"
     /\ IF name \notin Registered
          THEN /\ Reject(Err("Function not found in user functions"))
               /\ UNCHANGED <<messages, phase, attempts, invoked, lastError,
                              nReturned, fnCalls, completions>>
        ELSE IF ~parsed.ok
          THEN /\ fnCalls' = Append(fnCalls, [name |-> name, args |-> parsed.value])
               /\ Reject(parsed.error)
               /\ UNCHANGED <<messages, phase, attempts, invoked, lastError,
                              nReturned, completions>>
        ELSE /\ fnCalls' = Append(fnCalls, [name |-> name, args |-> parsed.value])
             /\ IF behaviour = "throws"
                  THEN /\ Reject(Err("thrown by the callable"))
                       /\ UNCHANGED <<messages, phase, attempts, invoked, lastError,
                                      nReturned, completions>>
                  ELSE /\ messages' = Append(messages,
                            Message("function", ResultContent(behaviour), name,
                                    NoFunctionCall))
                       /\ phase' = 2
                       /\ completions' = completions + 1
                       /\ StartRetry
                       /\ UNCHANGED <<outcome, history>>
     /\ UNCHANGED <<elsewhere, opts, choice, streamVars, wireLines, requests,
                    sent, status, logBefore, added, returned>>

\* sendMessage: callFunction, the function message, the follow-up complete()
CallFunction(behaviour) ==
  LET name == choice.function_call[1].name
      args == choice.function_call[1].arguments
      parsed == ParseArguments(name, args)
  IN /\ pc = "dispatch"
     /\ IF name \notin Registered
          THEN /\ Reject(Err("Function not found in user functions"))
               /\ UNCHANGED <<messages, phase, attempts, invoked, lastError,
                              nReturned, fnCalls, completions>>
        ELSE IF ~parsed.ok
          THEN /\ Reject(parsed.error)
               /\ UNCHANGED <<messages, phase, attempts, invoked, lastError,
                              nReturned, fnCalls, completions>>
        ELSE /\ fnCalls' = Append(fnCalls, [name |-> name, args |-> parsed.value])
             /\ IF behaviour = "throws"
                  THEN /\ Reject(Err("thrown by the callable"))
                       /\ UNCHANGED <<messages, phase, attempts, invoked, lastError,
                                      nReturned, completions>>
                  ELSE /\ messages' = Append(messages,
                            Message("function", ResultContent(behaviour), name,
                                    NoFunctionCall))
                       /\ phase' = 2
                       /\ completions' = completions + 1
                       /\ StartRetry
                       /\ UNCHANGED <<outcome, history>>
     /\ UNCHANGED <<elsewhere, opts, choice, streamVars, wireLines, requests,
                    sent, status, logBefore, added, returned>>

\* getMessages: () => messages; what is still recorded of the sendMessage
\* that ended before it is dropped
getMessages ==
  /\ pc = "idle"
  /\ Len(history) < MaxCalls
  /\ returned' = [ref |-> "messages", at |-> messages]
  /\ history' = Append(history, "got")
  /\ logBefore' = <<>>
  /\ status' = 0
  /\ opts' = NoOptions
  /\ phase' = 1
  /\ choice' = NewChoice
  /\ fnCalls' = <<>>
  /\ completions' = 0
  /\ outcome' = Pending
  /\ attempts' = 0
  /\ invoked' = 0
  /\ lastError' = NoError
  /\ nReturned' = -1
  /\ FreshStream
  /\ sent' = NoRequest
  /\ UNCHANGED <<elsewhere, messages, pc, wireLines, requests, added>>

\* ------------------------------------------------------------ specification
Next ==
  \/ \E prompt \in Prompts, o \in MessageOptions : SendMessage(prompt, o)
  \/ \E m \in SeedMessages : addMessage(m)
  \/ RetryInvoke
  \/ RetryExhausted
  \/ \E e \in FetchErrors : FetchFails(e)
  \/ \E code \in ClientErrorStatuses : FetchErrorStatus(code)
  \/ \E body \in BufferedBodies : FetchBuffered(body)
  \/ FetchStream
  \/ \E line \in WireLines \cup {ErrorObjectLine}, cancel \in BOOLEAN :
       ReadFragment(line, cancel)
  \/ \E line \in WireLines, cancel \in BOOLEAN : NextLine(line, cancel)
  \/ EndFragment
  \/ ReadDone
  \/ ReadFails
  \/ \E behaviour \in FunctionBehaviours : CallFunction(behaviour)

Spec == Init /\ [][Next]_vars

\* ------------------------------------------------- the log and its readers
\* the public surface of one chat, addMessage, getMessages and sendMessage,
\* with completions that are not streamed
LogNext ==
  \/ \E prompt \in Prompts : SendMessage(prompt, NoOptions)
  \/ \E m \in ResumedMessages : addMessage(m)
  \/ getMessages
  \/ RetryInvoke
  \/ RetryExhausted
  \/ \E e \in FetchErrors : FetchFails(e)
  \/ \E body \in BufferedBodies : FetchBuffered(body)
  \/ \E behaviour \in FunctionBehaviours : CallFunction(behaviour)

LogSpec == Init /\ [][LogNext]_vars

\* ------------------------------------------------ per-message options
\* sendMessage calls that give options of their own, on a conversation
\* created with ChatOptions; completions are not streamed
OptionsNext ==
  \/ \E prompt \in Prompts, o \in OverrideOptions : SendMessage(prompt, o)
  \/ RetryInvoke
  \/ RetryExhausted
  \/ \E e \in FetchErrors : FetchFails(e)
  \/ \E body \in BufferedBodies : FetchBuffered(body)
  \/ \E behaviour \in FunctionBehaviours : CallFunction(behaviour)

OptionsSpec == Init /\ [][OptionsNext]_vars

\* ------------------------------------------------- the remote side's frames
\* createCompletions against a remote side that sends the frames of a reply
\* piece by piece: the role, the name of a function call, its arguments, text,
\* the finish reason
RoleFrame(role) ==
  Line("frame", <<ChoiceChunk(0, NullFinish, Delta(role, Undefined, NoFunctionCall))>>)
FunctionNameFrame ==
  Line("frame", <<ChoiceChunk(0, NullFinish,
     Delta("assistant", Null, FunctionCall(<<"f">>, <<>>)))>>)
FunctionArgumentsFrame ==
  Line("frame", <<ChoiceChunk(0, NullFinish,
     Delta(UndefinedRole, Undefined, FunctionCall(Undefined, <<"{", "location", "}">>)))>>)

\* the frame that opens a reply: the role together with a first text
RoleTextFrame(role) ==
  Line("frame", <<ChoiceChunk(0, NullFinish, Delta(role, <<"a">>, NoFunctionCall))>>)

StreamLines ==
  {RoleFrame("assistant"), RoleFrame("system"), RoleTextFrame("system"),
   FunctionNameFrame, FunctionArgumentsFrame, TextFrame, StopFrame, DoneLine,
   BadFrameLine, BlankLine, SplitHead(TextFrame)}

\* buffered bodies whose message has no role, or a role other than assistant
RoleBodies ==
  { <<[message |-> [role |-> r, content |-> <<"a">>, function_call |-> NoFunctionCall],
       finish_reason |-> "stop"]>> : r \in {UndefinedRole, "system"} }

StreamOptions ==
  {[stream |-> FALSE, expect |-> FALSE, functionCall |-> Auto],
   [stream |-> TRUE, expect |-> FALSE, functionCall |-> Auto, mock |-> TRUE]}

StreamNext ==
  \/ \E prompt \in Prompts, o \in StreamOptions : SendMessage(prompt, o)
  \/ RetryInvoke
  \/ RetryExhausted
  \/ \E body \in RoleBodies : FetchBuffered(body)
  \/ FetchStream
  \/ \E line \in StreamLines \cup {SplitTail(TextFrame)}, cancel \in BOOLEAN :
       ReadFragment(line, cancel)
  \/ \E line \in StreamLines, cancel \in BOOLEAN : NextLine(line, cancel)
  \/ EndFragment
  \/ ReadDone
  \/ \E behaviour \in FunctionBehaviours : CallFunction(behaviour)

StreamSpec == Init /\ [][StreamNext]_vars

\* ------------------------------------------- the unresponsive-API timer
\* createCompletions with options.unresponsiveApiTimeout = Timeout, followed
\* along a discrete clock. A timer callback runs as soon as it is due: time
\* does not pass over the due time of an armed timer.

\* createCompletions up to its await of fetch: the timer is armed, the
\* request is issued with the abort signal
StartRequest ==
  /\ tpc = "start"
  /\ timeoutId' = now + Timeout
  /\ lastArrival' = now
  /\ tpc' = "fetch"
  /\ UNCHANGED <<messages, chatVars, turnVars, now, aborted>>

\* fetch resolves with the response; the first reader.read() is awaited
FetchResolves ==
  /\ tpc = "fetch"
  /\ tpc' = "read"
  /\ UNCHANGED <<messages, chatVars, turnVars, now, timeoutId, aborted, lastArrival>>

\* a read that leaves the timer as it was armed before
ReadResolvesKeepsTimer(kind) ==
  /\ tpc = "read"
  /\ lastArrival' = now
  /\ IF kind = "done"
       THEN timeoutId' = NoTimer /\ tpc' = "returned"
     ELSE IF kind = "throws"
       THEN timeoutId' = timeoutId /\ tpc' = "thrown"
     ELSE timeoutId' = timeoutId /\ tpc' = "read"
  /\ UNCHANGED <<messages, chatVars, turnVars, now, aborted>>

\* reader.read() resolves: the timer is cleared and armed again; then the
\* fragment is handled. kind "done": the loop is left, the timer is cleared
\* and createCompletions returns or throws the cancellation; "throws": a line
\* of the fragment makes the loop throw; "data": the next read is awaited
ReadResolves(kind) ==
  /\ tpc = "read"
  /\ lastArrival' = now
  /\ IF kind = "done"
       THEN timeoutId' = NoTimer /\ tpc' = "returned"
     ELSE IF kind = "throws"
       THEN timeoutId' = now + Timeout /\ tpc' = "thrown"
     ELSE timeoutId' = now + Timeout /\ tpc' = "read"
  /\ UNCHANGED <<messages, chatVars, turnVars, now, aborted>>

\* fetch or reader.read() rejects (the connection broke): createCompletions
\* throws
RequestFails ==
  /\ tpc \in {"fetch", "read"}
  /\ tpc' = "thrown"
  /\ UNCHANGED <<messages, chatVars, turnVars, now, timeoutId, aborted, lastArrival>>

\* the timer callback: abortController.abort(); a pending fetch or read
\* rejects with the abort error
TimerFires ==
  /\ timeoutId # NoTimer
  /\ now >= timeoutId
  /\ aborted' = TRUE
  /\ timeoutId' = NoTimer
  /\ tpc' = (IF tpc \in {"fetch", "read"} THEN "aborted" ELSE tpc)
  /\ UNCHANGED <<messages, chatVars, turnVars, now, lastArrival>>

\* one unit of time passes
Tick ==
  /\ now < MaxTime
  /\ tpc \in {"fetch", "read"} \/ timeoutId # NoTimer
  /\ timeoutId = NoTimer \/ now < timeoutId
  /\ now' = now + 1
  /\ UNCHANGED <<messages, chatVars, turnVars, tpc, timeoutId, aborted, lastArrival>>

TimerNext ==
  \/ StartRequest
  \/ FetchResolves
  \/ \E kind \in {"data", "done", "throws"} : ReadResolves(kind)
  \/ RequestFails
  \/ TimerFires
  \/ Tick

TimerSpec == Init /\ [][TimerNext]_vars

\* ------------------------------------------- sendMessage calls in parallel
\* Callers call sendMessage on one conversation without awaiting one
\* another. Every reply is one plain choice.

\* sendMessage up to its first await: the user message is pushed, complete
\* calls retry, which invokes createCompletions, which issues the request
Call(p) ==
  /\ turns[p].at = "idle"
  /\ messages' = Append(messages, Message("user", <<"ping">>, Undefined, NoFunctionCall))
  /\ owners' = Append(owners, p)
  /\ turns' = [turns EXCEPT ![p] = [at |-> "fetch", attempts |-> 1]]
  /\ UNCHANGED <<chatVars, timerVars>>

\* the request of p is answered with one plain choice: createCompletions
\* returns, sendMessage pushes the choice and resolves
Answer(p) ==
  /\ turns[p].at = "fetch"
  /\ messages' = Append(messages, omit(ParseResponse(
        <<BufferedChoice(<<"a">>, "stop", NoFunctionCall)>>)[1]))
  /\ owners' = Append(owners, p)
  /\ turns' = [turns EXCEPT ![p].at = "resolved"]
  /\ UNCHANGED <<chatVars, timerVars>>

\* the request of p fails: retry catches the error and waits delay(1000)
Fails(p) ==
  /\ turns[p].at = "fetch"
  /\ turns' = [turns EXCEPT ![p].at = "delay"]
  /\ UNCHANGED <<messages, owners, chatVars, timerVars>>

\* the delay of p's retry is over: the request is issued again, or the
\* attempts are used up and sendMessage rejects
Reinvoke(p) ==
  /\ turns[p].at = "delay"
  /\ turns' = IF turns[p].attempts < retries
                THEN [turns EXCEPT ![p] = [at |-> "fetch", attempts |-> @.attempts + 1]]
                ELSE [turns EXCEPT ![p].at = "rejected"]
  /\ UNCHANGED <<messages, owners, chatVars, timerVars>>

ConcurrentNext ==
  \E p \in Callers :
    \/ Call(p)
    \/ Answer(p)
    \/ Fails(p)
    \/ Reinvoke(p)

ConcurrentSpec == Init /\ [][ConcurrentNext]_vars

\* ==================================================================== claims
Count(kind) == Cardinality({k \in 1..Len(history) : history[k] = kind})
Settled == pc = "idle" /\ outcome.kind # "pending"
RetryGaveUp ==
  Settled /\ outcome.error = Err("Expected to never reach this point")

\* C1: retry goes on after a failure that is no cancellation, so that an
\* operation that fails twice and then succeeds is invoked three times and
\* its result is what sendMessage returns: retry gives up only once three
\* invocations have failed, and an error a routine threw is handed to the
\* caller of sendMessage only when it is the cancellation error, in which
\* case nothing is invoked after it.
C1_RetryProperty ==
  /\ RetryGaveUp => invoked = 3 /\ lastError.kind \in {"Error", "UnrecoverableRemoteError"}
  /\ (Settled /\ outcome.kind = "rejected" /\ outcome.error = lastError)
       => lastError.kind = "CancelledCompletionError"
  /\ lastError.kind = "CancelledCompletionError"
       => Settled /\ outcome = Rejected(lastError)
  /\ (Settled /\ outcome.kind = "resolved")
       => outcome.choice = choice /\ invoked \in 1..3

\* two failures, then a success: three invocations and the choice is returned
C1_Witness ==
  /\ Settled /\ outcome.kind = "resolved" /\ phase = 1
  /\ invoked = 3 /\ lastError.kind = "Error"
  /\ outcome.choice.content = <<"a">>

\* C2: retry makes up to 4 attempts: it never invokes the operation more
\* than 4 times, and it gives up on an operation whose invocations fail (here
\* a fetch that is rejected) only after the 4th invocation has failed.
C2_FourAttempts ==
  /\ invoked <= 4
  /\ (RetryGaveUp /\ lastError = Err("fetch failed")) => invoked = 4

\* C3: when the attempts are exhausted, the error raised to the caller is
\* the error of the last attempt (here a fetch that was rejected).
C3_LastErrorPropagated ==
  (Settled /\ attempts > retries /\ lastError = Err("fetch failed"))
    => outcome = Rejected(lastError)

\* C4: an UnrecoverableRemoteError thrown by the operation is not retried:
\* sendMessage rejects with it at once.
C4_UnrecoverableNotRetried ==
  lastError.kind = "UnrecoverableRemoteError"
    => Settled /\ outcome = Rejected(lastError)

\* C5: once the callback has invoked cancel, the stream can only end in the
\* CancelledCompletionError that carries the aggregated choices, with which
\* sendMessage rejects without another attempt.
C5_CancelAlwaysCancels ==
  cancelled =>
    \/ pc \in {"lines", "read"}
    \/ Settled /\ outcome = Rejected(CancelledCompletionError(choices))

\* C6: the choices carried by a cancellation error have empty or undefined
\* content at every index for which no content delta had arrived when cancel
\* was invoked.
C6_NoContentBeforeCancel ==
  (Settled /\ outcome.error.kind = "CancelledCompletionError") =>
    \A i \in {0, 1} \ seenAtCancel :
      \/ i + 1 > Len(outcome.error.choices)
      \/ outcome.error.choices[i + 1].content \in {Undefined, <<>>}

\* C7: on a conversation on which only sendMessage was called and every call
\* resolved, the log has 2 entries for each plain turn and 4 for each turn
\* with a function round-trip.
C7_LogLength ==
  (pc = "idle" /\ Count("rejected") = 0 /\ Count("added") = 0)
    => Len(messages) = 2 * Count("plain") + 4 * Count("function")

\* C8: a sendMessage never invokes a callable twice nor issues a third
\* completion; one that resolves after its first choice carried a
\* function_call has invoked the callable named by that choice once, with
\* the parsed arguments of that choice, has issued two completions and
\* resolves with the second choice, also when that choice carries a
\* function_call itself.
C8_OneFunctionRound ==
  /\ Len(fnCalls) <= 1
  /\ completions <= 2
  /\ (Settled /\ outcome.kind = "resolved") =>
       IF phase = 2
         THEN LET first == messages[Len(messages) - 1]
              IN /\ first.role = "assistant"
                 /\ first.function_call # NoFunctionCall
                 /\ fnCalls = <<[name |-> first.function_call[1].name,
                                 args |-> JsonParse(JsonRepair(
                                            first.function_call[1].arguments))]>>
                 /\ completions = 2
                 /\ outcome.choice = choice
                 /\ nReturned = 1
         ELSE /\ messages[Len(messages)] = omit(choice)
              /\ choice.function_call = NoFunctionCall
              /\ fnCalls = <<>>
              /\ completions = 1

\* the second choice requests a function call again and is returned as is
C8_Witness ==
  /\ Settled /\ outcome.kind = "resolved" /\ phase = 2
  /\ outcome.choice.function_call # NoFunctionCall
  /\ Len(fnCalls) = 1 /\ completions = 2

\* C9: whatever fails and is retried, the callable is invoked at most once
\* in a sendMessage: not at all while the first completion is attempted, and
\* exactly once before the follow-up completion is attempted, however many
\* attempts either completion takes.
C9_AtMostOnceExecution ==
  /\ Len(fnCalls) <= 1
  /\ (pc \in {"retry", "fetch", "read", "lines"} /\ phase = 1) => fnCalls = <<>>
  /\ (pc \in {"retry", "fetch", "read", "lines"} /\ phase = 2) => Len(fnCalls) = 1

\* the follow-up completion is attempted again after a failure
C9_Witness ==
  /\ phase = 2 /\ pc = "fetch" /\ invoked = 2 /\ lastError.kind = "Error"
  /\ Len(fnCalls) = 1

\* C10: when createCompletions returns no choice or more than one, sendMessage
\* rejects with "No choices returned" or "Expected only one choice", the log
\* still ends with the entry that was sent last (no assistant entry was
\* appended for that completion) and no callable was invoked after it.
C10_ExactlyOneChoice ==
  (nReturned # -1 /\ nReturned # 1) =>
    /\ Settled
    /\ outcome = Rejected(Err(IF nReturned = 0 THEN "No choices returned"
                                               ELSE "Expected only one choice"))
    /\ messages[Len(messages)].role = (IF phase = 1 THEN "user" ELSE "function")
    /\ Len(fnCalls) = phase - 1

\* a stream that yields two choices
C10_Witness ==
  /\ nReturned = 2 /\ opts.stream /\ Len(choices) = 2
  /\ Settled /\ outcome.kind = "rejected"

\* C11: when sendMessage is called with a forced function name
\* (functionCall: {name: X}) and the reply carries a function call, the
\* callable invoked is the one registered under X, whatever name the reply
\* carries.
C11_ForcedFunctionDispatched ==
  opts.functionCall.mode = "name" =>
    \A k \in 1..Len(fnCalls) : fnCalls[k].name = opts.functionCall.name

\* s is a subsequence of t: its elements occur in t in the same order
RECURSIVE IsSubseq(_, _)
IsSubseq(s, t) ==
  IF s = <<>> THEN TRUE
  ELSE IF t = <<>> THEN FALSE
  ELSE IF Head(s) = Head(t) THEN IsSubseq(Tail(s), Tail(t))
  ELSE IsSubseq(s, Tail(t))

\* the decoded request body holds the log entry by entry: same length, same
\* order, each entry with the keys and values of the log's entry
Carries(body, log) ==
  /\ Len(body.messages) = Len(log)
  /\ \A k \in 1..Len(log) :
       /\ body.messages[k].role = log[k].role
       /\ body.messages[k].content = log[k].content
       /\ ("name" \in DOMAIN body.messages[k]) = (log[k].name # Undefined)
       /\ log[k].name # Undefined => body.messages[k].name = log[k].name
       /\ ("function_call" \in DOMAIN body.messages[k])
            = (log[k].function_call # NoFunctionCall)
       /\ log[k].function_call # NoFunctionCall
            => body.messages[k].function_call = log[k].function_call[1]

\* C12: round-trip: the messages given to addMessage are in the log that
\* getMessages returns, unchanged and in insertion order, and every request
\* issued carries the whole log, in order and verbatim.
C12_RoundTrip ==
  /\ IsSubseq(added, messages)
  /\ (pc = "idle" /\ history # <<>> /\ history[Len(history)] = "got")
       => returned.at = messages /\ IsSubseq(added, returned.at)
  /\ pc = "fetch" => Carries(sent, messages) /\ IsSubseq(added, messages)

\* a request issued after addMessage carries the added message first and the
\* prompt after it
C12_Witness ==
  /\ pc = "fetch"
  /\ Len(added) = 1
  /\ Len(sent.messages) = 2
  /\ sent.messages[1].content = <<"2134">>
  /\ sent.messages[2].content = <<"ping">>

\* C13: getMessages() has snapshot semantics: the value it returned is not
\* changed by later sendMessage/addMessage calls, so what the caller reads
\* through it stays the log as it was when getMessages returned.
C13_SnapshotSemantics ==
  returned.ref # "none" => ValueOf(returned) = returned.at

IsPrefix(s, t) == Len(s) <= Len(t) /\ SubSeq(t, 1, Len(s)) = s

\* C14: the message log is append-only: every step of sendMessage (whether
\* it resolves or rejects), addMessage and getMessages leaves the log it
\* found as a prefix of the log it leaves.
C14_AppendOnly == [][IsPrefix(messages, messages')]_vars

\* a message was added, then a sendMessage appended its entries and rejected
\* at the function call
C14_Witness ==
  /\ pc = "idle"
  /\ history = <<"added", "rejected">>
  /\ Len(messages) = 3
  /\ messages[1] = added[1]
  /\ messages[3].function_call # NoFunctionCall

\* C16: a failed turn rolls nothing back. If the first completion is
\* cancelled or fails, the log is the log before the call plus the user
\* message; if the function dispatch fails, it is the log before the call
\* plus the user message and the assistant's function-call entry, with no
\* function-role entry after them.
C16_NoRollback ==
  (Settled /\ outcome.kind = "rejected" /\ phase = 1) =>
    IF choice = NewChoice
      THEN /\ Len(messages) = Len(logBefore) + 1
           /\ IsPrefix(logBefore, messages)
           /\ messages[Len(messages)].role = "user"
           /\ messages[Len(messages)].content
                = (IF opts.expect THEN extendPrompt(<<"ping">>) ELSE <<"ping">>)
      ELSE /\ Len(messages) = Len(logBefore) + 2
           /\ IsPrefix(logBefore, messages)
           /\ messages[Len(messages) - 1].role = "user"
           /\ messages[Len(messages)] = omit(choice)
           /\ choice.function_call # NoFunctionCall

\* a sendMessage on a log of one entry was cancelled during its first
\* completion
C16_Witness ==
  /\ Settled
  /\ outcome.error.kind = "CancelledCompletionError"
  /\ phase = 1
  /\ Len(logBefore) = 1
  /\ Len(messages) = 2

\* C17: whenever the remote side answers a request with a 4xx status and an
\* error document as body, createCompletions raises UnrecoverableRemoteError,
\* with onUpdate (streaming) and without it (buffered) alike.
C17_ClientErrorUnrecoverable ==
  status \in 400..499 => lastError.kind = "UnrecoverableRemoteError"

\* a request of the current sendMessage reached the remote side: the last
\* body sent holds the user message of this call
RequestIssued == Len(sent.messages) > Len(logBefore)

\* what createChat's parseResponse throws
ValidationErrors == {Err("SyntaxError: JSON.parse"), Err("Invalid response")}

\* C19: a sendMessage with an expectation resolves with the choice whose
\* content is the parsed JSON value when the final reply's content satisfies
\* the schema: it resolves only that way, and when it rejects, a request of
\* it was issued, so that the remote side or its reply can be at fault.
C19_StructuredOutput ==
  (Settled /\ opts.expect) =>
    IF outcome.kind = "resolved"
      THEN /\ outcome.parsed = JsonParse(outcome.choice.content)
           /\ outcome.parsed.ok
           /\ SchemaValid(outcome.parsed, ExpectRequired)
      ELSE RequestIssued

\* C20: with an expectation, a final choice whose content is not valid JSON
\* or violates the schema makes sendMessage reject with the validation
\* error: a sendMessage with an expectation that rejects without the remote
\* side's fault rejects with a validation error of a choice it received.
C20_ValidationFailureFatal ==
  (Settled /\ opts.expect /\ outcome.kind = "rejected" /\ status = 0
     /\ lastError \notin FetchErrors)
    => outcome.error \in ValidationErrors /\ nReturned = 1

\* C18: with unresponsiveApiTimeout = Timeout every completed read re-arms
\* the timer: the request in flight is aborted only when Timeout has passed
\* since the request started or since the previous read completed, a request
\* is never in flight longer than Timeout after that moment, and the timer
\* in force is always the one armed at that moment.
C18_GapTimeout ==
  /\ tpc = "aborted" => now - lastArrival >= Timeout
  /\ tpc \in {"fetch", "read"} =>
       /\ now - lastArrival <= Timeout
       /\ timeoutId = lastArrival + Timeout

\* a stream that has lasted more than twice the timeout, each gap shorter
\* than the timeout, is still being read
C18_Witness ==
  /\ tpc = "read"
  /\ ~aborted
  /\ now > 2 * Timeout
  /\ now - lastArrival < Timeout

\* C15: for every interleaving of sendMessage calls on one conversation, at
\* most one completion request is outstanding at a time, and the entries of
\* two turns do not interleave: a turn's user entry that has a successor in
\* the log is followed by that turn's own assistant entry.
C15_OneTurnAtATime ==
  /\ Cardinality({p \in Callers : turns[p].at = "fetch"}) <= 1
  /\ \A k \in 1..(Len(owners) - 1) :
       messages[k].role = "user" =>
         owners[k + 1] = owners[k] /\ messages[k + 1].role = "assistant"

\* C21: every request of a sendMessage carries, for each option, the value
\* given with the call when the call gives one and the conversation-level
\* value otherwise, in the first completion and in the follow-up alike; the
\* conversation-level options stay what createChat was given.
C21_OptionOverrides ==
  /\ options = ChatOptions
  /\ pc = "fetch" =>
       \A key \in {"model", "maxTokens", "functionCall"} :
         LET carried == IF key = "model" THEN sent.model
                        ELSE IF key = "maxTokens" THEN sent.max_tokens
                        ELSE sent.function_call
         IN IF key \in DOMAIN opts THEN carried = opts[key]
            ELSE IF key \in DOMAIN ChatOptions THEN carried = ChatOptions[key]
            ELSE carried = Undefined

\* the follow-up request of a call that gives a model and no functionCall
C21_Witness ==
  /\ pc = "fetch" /\ phase = 2
  /\ "model" \in DOMAIN opts /\ "functionCall" \notin DOMAIN opts
  /\ sent.model = <<"gpt-4">>
  /\ sent.function_call = Auto

\* C22: after every sendMessage that resolves, the last entry of the log is
\* the choice it resolved with, without its finishReason (same role, content
\* and function_call) and without a name, and the entries the call appended
\* are messages, which have no finishReason.
C22_FinalChoiceLogged ==
  (Settled /\ outcome.kind = "resolved") =>
    /\ messages[Len(messages)] = omit(outcome.choice)
    /\ \A k \in (Len(logBefore) + 1)..Len(messages) :
         "finishReason" \notin DOMAIN messages[k]

\* what a protocol violation makes createCompletions throw: a line without
\* the "data: " marker, a frame that fails validation, a response without body
ProtocolErrors ==
  {Err("Unexpected message"), Err("SyntaxError: could not parse chunk"),
   Err("Expected response to have a body")}

\* C23: a protocol violation is fatal: once createCompletions has thrown the
\* error of one, sendMessage has rejected with that error and the completion
\* was invoked once.
C23_ProtocolViolationFatal ==
  lastError \in ProtocolErrors =>
    /\ Settled
    /\ outcome = Rejected(lastError)
    /\ invoked = 1

\* a step in which the onUpdate callback is invoked: a frame is taken from
\* the wire and handled
OnUpdateInvoked ==
  \E line \in WireLines \cup StreamLines, cancel \in BOOLEAN :
    /\ line.kind = "frame"
    /\ (ReadFragment(line, cancel) \/ NextLine(line, cancel))

\* C24: once cancel has been invoked during a stream, no step of that stream
\* invokes the callback again or changes the choices, which are the ones the
\* cancellation error carries.
C24_NothingAfterCancel ==
  [][(cancelled /\ pc \in {"lines", "read"}) =>
       ~OnUpdateInvoked /\ choices' = choices]_vars

\* a function_call a caller may see: its name is not empty and the finish
\* reason of its choice has been observed
WellFormedCall(c) ==
  c.function_call # NoFunctionCall =>
    /\ c.function_call[1].name \notin {<<>>, Undefined, Null}
    /\ c.finishReason \notin {NoFinish, NullFinish}

\* C25: every function_call a caller sees is well-formed, in the choice that
\* createCompletions returned and in the choices a cancellation error
\* carries: a function call that is still being accumulated is not exposed.
C25_WellFormedFunctionCall ==
  /\ WellFormedCall(choice)
  /\ lastError.kind = "CancelledCompletionError" =>
       \A k \in 1..Len(lastError.choices) :
         lastError.choices[k] # Hole => WellFormedCall(lastError.choices[k])

\* C26: within one stream the role of a choice is set once: while the stream
\* is being consumed, a choice that has a role keeps it, whatever role a
\* later frame carries for its index.
C26_RoleSetOnce ==
  [][(pc \in {"lines", "read"} /\ pc' \in {"lines", "read"}) =>
       \A k \in 1..Len(choices) :
         choices[k].role \in Roles => choices'[k].role = choices[k].role]_vars

\* the text a wire delta carries for one part of a choice (content, the
\* name or the arguments of the function call), empty if it carries none
Fragment(d, part) ==
  IF part = "content"
    THEN (IF d.content \in {Undefined, Null} THEN <<>> ELSE d.content)
  ELSE IF d.function_call = NoFunctionCall THEN <<>>
  ELSE IF part = "name"
    THEN (IF d.function_call[1].name \in {Undefined, Null}
            THEN <<>> ELSE d.function_call[1].name)
  ELSE (IF d.function_call[1].arguments \in {Undefined, Null}
          THEN <<>> ELSE d.function_call[1].arguments)

\* the fragments of one frame for index i, concatenated in the frame's order
RECURSIVE Arrived(_, _, _)
Arrived(choiceChunks, i, part) ==
  IF choiceChunks = <<>> THEN <<>>
  ELSE (IF Head(choiceChunks).index = i
          THEN Fragment(Head(choiceChunks).delta, part) ELSE <<>>)
         \o Arrived(Tail(choiceChunks), i, part)

\* what is accumulated in chs for index i, empty while nothing is
Accumulated(chs, i, part) ==
  IF i + 1 > Len(chs) \/ chs[i + 1] = Hole THEN <<>>
  ELSE IF part = "content"
    THEN (IF chs[i + 1].content = Undefined THEN <<>> ELSE chs[i + 1].content)
  ELSE IF chs[i + 1].function_call = NoFunctionCall THEN <<>>
  ELSE IF part = "name" THEN chs[i + 1].function_call[1].name
  ELSE chs[i + 1].function_call[1].arguments

\* C27: in a stream that is not cancelled every frame appends, for each
\* index, its content text to the content accumulated for that index and the
\* name and arguments fragments of its function call to the accumulated name
\* and arguments, and leaves the choice of an index it has no delta for as
\* it is; the content of the choice that is returned is the accumulated one.
C27_Concatenation ==
  /\ []((nReturned = 1 /\ opts.stream) =>
          choice.content = Accumulated(choices, 0, "content"))
  /\ [][\A line \in WireLines :
          (/\ line.kind = "frame"
           /\ ~cancelled
           /\ (ReadFragment(line, FALSE) \/ NextLine(line, FALSE)))
          => \A i \in 0..1 :
               /\ \A part \in {"content", "name", "arguments"} :
                    Accumulated(choices', i, part)
                      = Accumulated(choices, i, part) \o Arrived(line.choices, i, part)
               /\ (i + 1 <= Len(choices)
                     /\ \A k \in 1..Len(line.choices) : line.choices[k].index # i)
                    => choices'[i + 1] = choices[i + 1]]_vars

\* C28: a function-call frame whose content is null carries no content
\* text: as the remote side sends no text "null", the content accumulated
\* for a choice never holds the text "null".
C28_NullContentIgnored ==
  \A k \in 1..Len(choices) :
    (choices[k] # Hole /\ choices[k].content # Undefined) =>
      \A j \in 1..Len(choices[k].content) : choices[k].content[j] # "null"

\* a choice of the stream as accumulated lacks its content or its finish reason
Partial(c) ==
  c = Hole \/ c.content \in {Undefined, Null} \/ c.finishReason \in {NoFinish, NullFinish}

\* C29: createCompletions returns only choices with a role, a string
\* content and a finish reason: when a stream that was not cancelled has
\* ended while a choice lacks content or finish reason, createCompletions has
\* thrown an error and returned nothing.
C29_NoPartialChoice ==
  /\ choice # NewChoice =>
       /\ choice.role \in Roles
       /\ choice.content \notin {Undefined, Null}
       /\ choice.finishReason \notin {NoFinish, NullFinish}
  /\ (opts.stream /\ ~cancelled /\ pc \notin {"fetch", "read", "lines"}
        /\ \E k \in 1..Len(choices) : Partial(choices[k]))
       => nReturned = -1 /\ lastError.kind \in {"Error", "UnrecoverableRemoteError"}

\* a stream that closed after a text frame, without a finish reason
C29_Witness ==
  /\ opts.stream /\ ~cancelled /\ pc = "retry"
  /\ Len(choices) = 1
  /\ choices[1].content = <<"a">>
  /\ choices[1].finishReason = NoFinish
  /\ lastError = Err("ZodError: invalid choice")

\* the roles the wire set for the choice of index i
WireRolesOf(i) == {r \in Roles : <<i, r>> \in wireRoles}

\* C30: the choice createCompletions returns has the role "assistant" when
\* the wire set no role for it and a role the wire set otherwise, at the end
\* of a stream that was not cancelled and for a buffered body alike.
C30_RoleDefault ==
  /\ []((nReturned = 1 /\ opts.stream) =>
          IF WireRolesOf(0) = {} THEN choice.role = "assistant"
          ELSE choice.role \in WireRolesOf(0))
  /\ [][\A body \in RoleBodies :
          (FetchBuffered(body) /\ nReturned' = 1) =>
            choice'.role = (IF body[1].message.role = UndefinedRole
                              THEN "assistant" ELSE body[1].message.role)]_vars

\* C31: a blank line of a fragment has no effect (nothing is folded, the
\* callback is not invoked, nothing is thrown), and once the line
\* `data: [DONE]` was met in a stream that is not cancelled, no line is taken
\* from the wire any more: the rest of the fragment and the later fragments
\* are not parsed, not handed to the callback and not folded.
C31_BlankAndDone ==
  [][/\ \A cancel \in BOOLEAN :
          (ReadFragment(BlankLine, cancel) \/ NextLine(BlankLine, cancel))
            => /\ UNCHANGED <<choices, cancelled, readerCancelled, updates, lastError>>
               /\ pc' = "lines"
     /\ (readerCancelled /\ ~cancelled /\ pc = "read")
          => /\ wireLines' = wireLines
             /\ UNCHANGED <<choices, updates>>
             /\ pc' \notin {"read", "lines"}]_vars

\* a stream in which a frame, a blank line and `data: [DONE]` were met: the
\* callback was invoked once and the next read is awaited
C31_Witness ==
  /\ Recording(opts) /\ requests = 1 /\ wireLines = 3
  /\ pc = "read" /\ readerCancelled /\ ~cancelled
  /\ updates = <<TextFrame>>
  /\ choices[1].content = <<"a">>

\* C32: a fragment that begins with "{" is an unrecoverable remote error:
\* the reader is cancelled, UnrecoverableRemoteError with the fragment is
\* thrown, the callback is not invoked for the fragment, nothing is folded
\* and no choices are returned.
C32_ErrorObjectFragment ==
  [][\A cancel \in BOOLEAN :
       ReadFragment(ErrorObjectLine, cancel) =>
         /\ readerCancelled'
         /\ lastError' = UnrecoverableRemoteError("error object")
         /\ UNCHANGED <<choices, cancelled, updates, nReturned, choice, messages>>
         /\ ~OnUpdateInvoked]_vars

\* the error document came as the second fragment of a stream, after a frame
C32_Witness ==
  /\ opts.stream /\ status = 200 /\ pc = "retry"
  /\ lastError = UnrecoverableRemoteError("error object")
  /\ readerCancelled
  /\ Len(choices) = 1
  /\ nReturned = -1

\* the choices array after the frames of a sequence of lines were folded into
\* an empty one, in order
RECURSIVE FoldLines(_)
FoldLines(lines) ==
  IF lines = <<>> THEN <<>>
  ELSE FoldFrame(FoldLines(SubSeq(lines, 1, Len(lines) - 1)),
                 lines[Len(lines)].choices)

\* C33: for a stream that is not cancelled, the callback invocations and the
\* choices depend only on the sequence of frame lines, not on how the lines
\* are grouped into fragments: a frame is passed to the callback and folded
\* the same way as first or as later line of a fragment, the end of a
\* fragment changes nothing, and what is returned is made of the fold of the
\* frames in order.
C33_FragmentationIrrelevant ==
  /\ []((Recording(opts) /\ ~cancelled /\ status = 200) =>
          /\ choices = FoldLines(updates)
          /\ nReturned >= 0 => nReturned = Len(FoldLines(updates))
          /\ (nReturned = 1 /\ phase = 1 /\ pc \in {"idle", "dispatch"} /\ outcome.kind # "rejected")
               => choice = Finalize(FoldLines(updates)).choices[1])
  /\ [][/\ \A line \in StreamLines :
             (line.kind = "frame"
                /\ (ReadFragment(line, FALSE) \/ NextLine(line, FALSE)))
               => /\ updates' = Append(updates, line)
                  /\ choices' = FoldFrame(choices, line.choices)
        /\ EndFragment => UNCHANGED <<choices, updates>>]_vars

\* three frames in two fragments, returned as one choice
C33_Witness ==
  /\ Recording(opts) /\ ~cancelled /\ status = 200
  /\ updates = <<RoleFrame("assistant"), TextFrame, StopFrame>>
  /\ nReturned = 1 /\ outcome.kind = "resolved"
  /\ choice = Finalize(FoldLines(updates)).choices[1]

\* C34: a frame split across two consecutive fragments is put together again
\* before it is parsed: the first part raises nothing and leaves the stream
\* open, and with the second part the whole frame is folded into the choices
\* as if it had arrived in one fragment.
C34_SplitFrameReassembled ==
  [][\A cancel \in BOOLEAN :
       /\ (ReadFragment(SplitHead(TextFrame), cancel)
             \/ NextLine(SplitHead(TextFrame), cancel))
            => /\ lastError' = lastError
               /\ readerCancelled' = readerCancelled
               /\ choices' = choices
       /\ ReadFragment(SplitTail(TextFrame), cancel)
            => /\ lastError' = lastError
               /\ choices' = FoldFrame(choices, TextFrame.choices)]_vars

\* ------------------------------------------------------- function dispatch
\* function calls whose arguments do not satisfy the schema of "f": an object
\* without the required property, a text jsonrepair completes to such an
\* object, a text jsonrepair gives up on, and one it completes to a valid one
InvalidCallBodies ==
  { <<BufferedChoice(Null, "function_call", FunctionCall(<<"f">>, <<"{", "}">>))>>,
    <<BufferedChoice(Null, "function_call", FunctionCall(<<"f">>, <<"{">>))>>,
    <<BufferedChoice(Null, "function_call", FunctionCall(<<"f">>, <<"}">>))>>,
    <<BufferedChoice(Null, "function_call", FunctionCall(<<"f">>, <<"{", "location">>))>> }

DispatchNext ==
  \/ \E prompt \in Prompts : SendMessage(prompt, NoOptions)
  \/ RetryInvoke
  \/ RetryExhausted
  \/ \E e \in FetchErrors : FetchFails(e)
  \/ \E body \in BufferedBodies \cup InvalidCallBodies : FetchBuffered(body)
  \/ \E behaviour \in FunctionBehaviours : CallFunction(behaviour)

DispatchSpec == Init /\ [][DispatchNext]_vars

\* the errors callFunction raises before the callable is invoked
DispatchErrors ==
  {Err("Function not found in user functions"), Err("Invalid arguments"),
   Err("JSONRepairError")}

\* C35: callFunction with an unregistered name raises "function not found"
\* and invokes no callable; with a registered name the callable is invoked
\* only with arguments that were parsed and satisfy the schema, and with
\* exactly the parsed value; arguments that are invalid raise an error
\* without the callable being invoked. None of these failures is retried:
\* the sendMessage rejects with the error at once.
C35_Dispatch ==
  [][\A behaviour \in FunctionBehaviours :
       CallFunction(behaviour) =>
         LET name == choice.function_call[1].name
             args == choice.function_call[1].arguments
             value == JsonParse(JsonRepair(args))
             valid == /\ JsonRepair(args) # Undefined
                      /\ SchemaValid(value, RequiredOf(name))
         IN /\ name \notin Registered =>
                 /\ outcome' = Rejected(Err("Function not found in user functions"))
                 /\ fnCalls' = fnCalls
            /\ (name \in Registered /\ ~valid) =>
                 /\ outcome'.kind = "rejected"
                 /\ outcome'.error \in DispatchErrors
                 /\ fnCalls' = fnCalls
            /\ (name \in Registered /\ valid) =>
                 fnCalls' = Append(fnCalls, [name |-> name, args |-> value])
            /\ (outcome'.kind = "rejected" /\ outcome'.error \in DispatchErrors) =>
                 /\ pc' = "idle"
                 /\ UNCHANGED <<attempts, invoked, requests, completions, messages>>]_vars

\* a call of "f" with arguments that lack the required property was rejected
C35_Witness ==
  /\ Settled
  /\ outcome = Rejected(Err("Invalid arguments"))
  /\ choice.function_call = FunctionCall(<<"f">>, <<"{", "}">>)
  /\ fnCalls = <<>>
  /\ invoked = 1 /\ completions = 1

\* the entries sendMessage has appended to the log since it was called
Appended == SubSeq(messages, Len(logBefore) + 1, Len(messages))

\* C36: in a function round-trip the assistant entry with the function call
\* is in the log before the callable is invoked, the function entry (content
\* the JSON text of the result, name the name of the called function) is
\* appended only after the callable was invoked, and a request is issued with
\* the function entry only after that, as the last of its messages.
C36_RoundTripOrder ==
  (pc # "idle" \/ outcome.kind # "pending") =>
    /\ fnCalls # <<>> =>
         /\ Len(Appended) >= 2
         /\ Appended[2] = omit(choice) \/ phase = 2
         /\ Appended[2].function_call # NoFunctionCall
         /\ Appended[2].function_call[1].name = fnCalls[1].name
    /\ Len(Appended) >= 3 =>
         /\ Len(fnCalls) = 1
         /\ Len(Appended) = 3
         /\ \E behaviour \in FunctionBehaviours \ {"throws"} :
              Appended[3] = Message("function", ResultContent(behaviour),
                                    fnCalls[1].name, NoFunctionCall)
    /\ phase = 1 => Len(sent.messages) <= Len(logBefore) + 1
    /\ (phase = 2 /\ pc \in {"fetch", "read", "lines"}) =>
         /\ Len(sent.messages) = Len(messages)
         /\ sent.messages[Len(messages)] = WireMessage(Appended[3])
         /\ Appended[3].role = "function"

\* the follow-up request is in flight, ending with the result of "f"
C36_Witness ==
  /\ phase = 2 /\ pc = "fetch"
  /\ fnCalls = <<[name |-> <<"f">>, args |-> JsonParse(<<"{", "location", "}">>)]>>
  /\ Appended[3] = Message("function", JsonStringify(FunctionResult), <<"f">>, NoFunctionCall)
  /\ sent.messages[Len(sent.messages)] = WireMessage(Appended[3])

\* C37: every attempt of retry issues the whole request against the same
\* log: whatever the number of attempts, sendMessage has appended the user
\* message once, each request carries the log as it is, and the choice that is
\* returned after failed attempts is made of the frames of the attempt that
\* succeeded and of nothing else.
C37_RetriesAgainstSameLog ==
  (pc # "idle" \/ outcome.kind # "pending") =>
    /\ Len(Appended) >= 1
    /\ Appended[1].role = "user"
    /\ Cardinality({k \in 1..Len(Appended) : Appended[k].role = "user"}) = 1
    /\ pc \in {"fetch", "read", "lines"} => Carries(sent, messages)
    /\ (Recording(opts) /\ invoked >= 1 /\ nReturned = 1 /\ phase = 1
          /\ outcome.kind # "rejected")
         => /\ Len(Finalize(FoldLines(updates)).choices) = 1
            /\ choice = Finalize(FoldLines(updates)).choices[1]
            /\ Len(Appended) >= 2
            /\ Appended[2] = omit(choice)

\* the first attempt folded a frame and failed, the second one succeeded
C37_Witness ==
  /\ Recording(opts) /\ invoked = 2 /\ nReturned = 1
  /\ lastError = Err("ZodError: invalid choice")
  /\ wireLines = 3
  /\ updates = <<TextFrame, StopFrame>>
  /\ outcome.kind = "resolved"
  /\ choice.content = <<"a">>
  /\ Len(Appended) = 2

\* C39: the timer does not outlive the call: once createCompletions has
\* returned or thrown, no timer is armed and no abort has fired since.
C39_TimerDisarmedOnExit ==
  tpc \in {"returned", "thrown"} =>
    /\ timeoutId = NoTimer
    /\ ~aborted

\* C40: when a sendMessage with an expectation has settled, the user entry it
\* stored is the augmented prompt, the request transmitted carries that same
\* text, and the assistant entry stored when a reply was received is the
\* reply's text as it came, not the parsed value.
C40_StructuredLog ==
  (Settled /\ opts.expect) =>
    /\ Len(Appended) >= 1
    /\ \E prompt \in Prompts :
         Appended[1] = Message("user", extendPrompt(prompt), Undefined, NoFunctionCall)
    /\ RequestIssued
    /\ sent.messages[Len(logBefore) + 1] = WireMessage(Appended[1])
    /\ nReturned = 1 =>
         /\ Len(Appended) >= 2
         /\ Appended[2] = omit(choice)

====
